---- MODULE Spec2Model ----
(***************************************************************************)
(* RayTracing/Common.h: the integer hash, the xorshift-style generator     *)
(* (CRNG, RngNext, Rand, InitCRND) and the two Interpolate overloads.      *)
(*                                                                         *)
(* A uint is the set of the positions of its one bits (bit 0 is the least  *)
(* significant), so that every operation is taken modulo 2^32 by           *)
(* construction and no intermediate value exceeds the integers of TLC.     *)
(* A float is a dyadic rational [m, e] standing for m * 2^e, with m odd or *)
(* zero and |m| < 2^24, rounded to nearest-even after every operation.     *)
(***************************************************************************)
EXTENDS Integers, Sequences, FiniteSets, TLC

VARIABLES
    id,          \* id[i]: the uint2 handed to InitCRND for instance i
    frameIndex,  \* frameIndex[i]: the uint handed to InitCRND for instance i
    fresh,       \* fresh[i]: the CRNG inside InitCRND before its RngNext call
    rng,         \* rng[i]: the CRNG of instance i, a record [Seed |-> [x, y]]
    calls,       \* calls[i]: the calls made on rng[i] since InitCRND, in order
    rets,        \* rets[i]: what those calls returned, in order
    tri,         \* the three device const vertices handed to Interpolate
    bary,        \* the barycentric coordinates <<u, v, w>> of the caller
    out3,        \* result of Interpolate(v0, v1, v2, float3), or NoVertex
    out2         \* result of Interpolate(v0, v1, v2, float2), or NoVertex

vars == <<id, frameIndex, fresh, rng, calls, rets, tri, bary, out3, out2>>

rngVars == <<id, frameIndex, fresh, rng, calls, rets>>

interpVars == <<tri, bary, out3, out2>>

(***************************************************************************)
(* Bounds of the model.                                                    *)
(***************************************************************************)
MaxCalls == 2       \* calls per instance between two InitCRND
Window == 1000      \* length of the output window of one generator

(***************************************************************************)
(* 32-bit unsigned integers.                                               *)
(***************************************************************************)
WordBits == 32

Bit == 0 .. (WordBits - 1)

Pow2(n) == 2 ^ n

\* the uint whose value is n, for 0 <= n < 2^31
ToUInt(n) == {i \in 0 .. 30 : (n \div Pow2(i)) % 2 = 1}

\* the value of a uint below 2^31
ToInt(a) == LET RECURSIVE Sum(_)
                Sum(s) == IF s = {} THEN 0
                          ELSE LET i == CHOOSE j \in s : TRUE
                               IN  Pow2(i) + Sum(s \ {i})
            IN  Sum(a)

Xor(a, b) == (a \ b) \cup (b \ a)

Or(a, b) == a \cup b

And(a, b) == a \cap b

\* a << k, the bits shifted out of the word dropped
Shl(a, k) == {i + k : i \in {j \in a : j + k < WordBits}}

\* a >> k, logical
Shr(a, k) == {i - k : i \in {j \in a : j >= k}}

\* a 32-bit literal written as its two 16-bit halves
Word(hi, lo) == Or(Shl(ToUInt(hi), 16), ToUInt(lo))

\* byte k of a (k = 0 is the least significant), as a number
Byte(a, k) ==
    LET b(i) == IF (8 * k + i) \in a THEN Pow2(i) ELSE 0
    IN  b(0) + b(1) + b(2) + b(3) + b(4) + b(5) + b(6) + b(7)

\* the uint of the four bytes p[0] .. p[3], each taken modulo 256
FromBytes(p) == {i \in Bit : (p[i \div 8] \div Pow2(i % 8)) % 2 = 1}

\* a * b modulo 2^32: the long multiplication of the bytes of a and b, the
\* columns above the fourth byte dropped
Mul(a, b) ==
    LET a0 == Byte(a, 0)  a1 == Byte(a, 1)  a2 == Byte(a, 2)  a3 == Byte(a, 3)
        b0 == Byte(b, 0)  b1 == Byte(b, 1)  b2 == Byte(b, 2)  b3 == Byte(b, 3)
        c0 == a0 * b0
        c1 == a0 * b1 + a1 * b0 + c0 \div 256
        c2 == a0 * b2 + a1 * b1 + a2 * b0 + c1 \div 256
        c3 == a0 * b3 + a1 * b2 + a2 * b1 + a3 * b0 + c2 \div 256
    IN  FromBytes([k \in 0 .. 3 |-> IF k = 0 THEN c0 ELSE IF k = 1 THEN c1
                                    ELSE IF k = 2 THEN c2 ELSE c3])

(***************************************************************************)
(* Hash, RngNext, Rand, InitCRND.                                          *)
(***************************************************************************)
HashMul == Word(\H27D4, \HEB2D)

RngMul == Word(\H9E37, \H79BB)

OneBits == Word(\H3F80, \H0000)

Nine == ToUInt(9)

SixtyOne == ToUInt(61)

\* Hash with its last shift by 16
Hash_Shift16(seed) ==
    LET s1 == Xor(Xor(seed, SixtyOne), Shr(seed, 16))
        s2 == Mul(s1, Nine)
        s3 == Xor(s2, Shr(s2, 4))
        s4 == Mul(s3, HashMul)
        s5 == Xor(s4, Shr(s4, 16))
    IN  s5

Hash(seed) ==
    LET s1 == Xor(Xor(seed, SixtyOne), Shr(seed, 16))
        s2 == Mul(s1, Nine)
        s3 == Xor(s2, Shr(s2, 4))
        s4 == Mul(s3, HashMul)
        s5 == Xor(s4, Shr(s4, 15))
    IN  s5

\* RngNext with the word taken from Seed.x after its update
RngNext_ResultAfterUpdate(r) ==
    LET y1 == Xor(r.Seed.y, r.Seed.x)
        x1 == Xor(Xor(Or(Shl(r.Seed.x, 26), Shr(r.Seed.x, 32 - 26)), y1),
                  Shl(y1, 9))
        y2 == Or(Shl(x1, 13), Shr(x1, 32 - 13))
        result == Mul(x1, RngMul)
    IN  [result |-> result, rng |-> [Seed |-> [x |-> x1, y |-> y2]]]

\* RngNext with Seed.y rotated from the Seed.x held before the call
RngNext_RotatesOldX(r) ==
    LET result == Mul(r.Seed.x, RngMul)
        y1 == Xor(r.Seed.y, r.Seed.x)
        x1 == Xor(Xor(Or(Shl(r.Seed.x, 26), Shr(r.Seed.x, 32 - 26)), y1),
                  Shl(y1, 9))
        y2 == Or(Shl(r.Seed.x, 13), Shr(r.Seed.x, 32 - 13))
    IN  [result |-> result, rng |-> [Seed |-> [x |-> x1, y |-> y2]]]

\* RngNext that never writes Seed.x
RngNext_KeepsX(r) ==
    LET result == Mul(r.Seed.x, RngMul)
        y1 == Xor(r.Seed.y, r.Seed.x)
        y2 == Or(Shl(r.Seed.x, 13), Shr(r.Seed.x, 32 - 13))
    IN  [result |-> result, rng |-> [Seed |-> [x |-> r.Seed.x, y |-> y2]]]

\* RngNext with ^ written for * in its first line
RngNext_XorForMul(r) ==
    LET result == Xor(r.Seed.x, RngMul)
        y1 == Xor(r.Seed.y, r.Seed.x)
        x1 == Xor(Xor(Or(Shl(r.Seed.x, 26), Shr(r.Seed.x, 32 - 26)), y1),
                  Shl(y1, 9))
        y2 == Or(Shl(x1, 13), Shr(x1, 32 - 13))
    IN  [result |-> result, rng |-> [Seed |-> [x |-> x1, y |-> y2]]]

\* RngNext(rng): the word returned and the CRNG as the call leaves it
RngNext(r) ==
    LET result == Mul(r.Seed.x, RngMul)
        y1 == Xor(r.Seed.y, r.Seed.x)
        x1 == Xor(Xor(Or(Shl(r.Seed.x, 26), Shr(r.Seed.x, 32 - 26)), y1),
                  Shl(y1, 9))
        y2 == Or(Shl(x1, 13), Shr(x1, 32 - 13))
    IN  [result |-> result, rng |-> [Seed |-> [x |-> x1, y |-> y2]]]

(***************************************************************************)
(* float: m * 2^e, m odd or zero, 24 significant bits, round to nearest,   *)
(* ties to even.  The exponent range is not modelled: no value of the      *)
(* model comes near the largest or the smallest binary32.                  *)
(***************************************************************************)
MantBits == 24

Abs(n) == IF n < 0 THEN -n ELSE n

RECURSIVE BitLen(_)
\* the number of significant bits of n >= 0
BitLen(n) == IF n = 0 THEN 0 ELSE 1 + BitLen(n \div 2)

RECURSIVE Norm(_, _)
\* the float m * 2^e, written with m odd or zero
Norm(m, e) == IF m = 0 THEN [m |-> 0, e |-> 0]
              ELSE IF m % 2 = 0 THEN Norm(m \div 2, e + 1)
              ELSE [m |-> m, e |-> e]

\* m * 2^e rounded to MantBits significant bits, ties to even
Round(m, e) ==
    LET a == Abs(m)
        k == BitLen(a) - MantBits
    IN  IF k <= 0 THEN Norm(m, e)
        ELSE LET q == a \div Pow2(k)
                 r == a % Pow2(k)
                 half == Pow2(k - 1)
                 up == (r > half) \/ (r = half /\ q % 2 = 1)
                 n == IF up THEN q + 1 ELSE q
             IN  Norm(IF m < 0 THEN -n ELSE n, e + k)

Min(a, b) == IF a <= b THEN a ELSE b

Max(a, b) == IF a >= b THEN a ELSE b

\* |a| < 2^Top(a)
Top(a) == BitLen(Abs(a.m)) + a.e

\* a + b: both operands in units of 2^(ew - 1), an operand that reaches below
\* that unit cut there with its last bit set (the sticky bit), then rounded
FAdd(a, b) ==
    IF a.m = 0 THEN b
    ELSE IF b.m = 0 THEN a
    ELSE LET ew == Max(Min(a.e, b.e), Max(Top(a), Top(b)) - 28)
             Part(x) ==
                 IF x.e >= ew THEN 2 * x.m * Pow2(x.e - ew)
                 ELSE LET d == ew - x.e
                          q == IF d >= MantBits THEN 0 ELSE Abs(x.m) \div Pow2(d)
                          n == 2 * q + 1
                      IN  IF x.m < 0 THEN -n ELSE n
         IN  Round(Part(a) + Part(b), ew - 1)

FNeg(a) == [m |-> -a.m, e |-> a.e]

FSub(a, b) == FAdd(a, FNeg(b))

FMul(a, b) == Round(a.m * b.m, a.e + b.e)

\* a < b
FLess(a, b) == FSub(a, b).m < 0

FZero == Norm(0, 0)

FOne == Norm(1, 0)

MantMask == ToUInt(\H7FFFFF)

ExpMask == ToUInt(\HFF)

\* as_type<float>(u): the binary32 whose bit pattern is u (finite patterns)
AsFloat(u) ==
    LET mant == ToInt(And(u, MantMask))
        expo == ToInt(And(Shr(u, 23), ExpMask))
        mag == CASE expo = 0 -> Norm(mant, -149)
                 [] expo > 0 /\ expo < 255 -> Norm(Pow2(23) + mant, expo - 150)
    IN  IF 31 \in u THEN FNeg(mag) ELSE mag

\* Rand keeping 24 bits of the word
Rand_Shift8(r) ==
    LET n == RngNext(r)
        u == Or(OneBits, Shr(n.result, 8))
    IN  [result |-> FSub(AsFloat(u), FOne), rng |-> n.rng]

\* Rand(rng): the float returned and the CRNG as the call leaves it
Rand(r) ==
    LET n == RngNext(r)
        u == Or(OneBits, Shr(n.result, 9))
    IN  [result |-> FSub(AsFloat(u), FOne), rng |-> n.rng]

\* (id.y << 16) | id.y
PackId_YTwice(d) == Or(Shl(d[2], 16), d[2])

\* (id.x << 16) | id.y
PackId(d) == Or(Shl(d[1], 16), d[2])

\* the CRNG of InitCRND once both Seed components are assigned
InitSeed(d, f) ==
    LET s0 == PackId(d)
        s1 == f
    IN  [Seed |-> [x |-> Hash(s0), y |-> Hash(s1)]]

\* InitCRND without its RngNext call
InitCRND_NoWarmUp(d, f) == InitSeed(d, f)

InitCRND(d, f) == RngNext(InitSeed(d, f)).rng

(***************************************************************************)
(* Interpolate: a packed_floatN is a tuple of floats, a Vertex a record.   *)
(***************************************************************************)
\* vector * float
VMul(a, s) == [k \in DOMAIN a |-> FMul(a[k], s)]

\* vector + vector
VAdd(a, b) == [k \in DOMAIN a |-> FAdd(a[k], b[k])]

\* Interpolate(v0, v1, v2, float3 barycentric)
InterpolateFloat3(v0, v1, v2, barycentric) ==
    LET u == barycentric[1]
        v == barycentric[2]
        w == barycentric[3]
    IN  [position |-> VAdd(VAdd(VMul(v0.position, u), VMul(v1.position, v)),
                           VMul(v2.position, w)),
         normal   |-> VAdd(VAdd(VMul(v0.normal, u), VMul(v1.normal, v)),
                           VMul(v2.normal, w)),
         texcoord |-> VAdd(VAdd(VMul(v0.texcoord, u), VMul(v1.texcoord, v)),
                           VMul(v2.texcoord, w))]

\* the float2 overload with w = 1 - (u + v)
InterpolateFloat2_Regrouped(v0, v1, v2, barycentric) ==
    InterpolateFloat3(v0, v1, v2,
                      <<barycentric[1], barycentric[2],
                        FSub(FOne, FAdd(barycentric[1], barycentric[2]))>>)

\* Interpolate(v0, v1, v2, float2 barycentric)
InterpolateFloat2(v0, v1, v2, barycentric) ==
    LET u == barycentric[1]
        v == barycentric[2]
        w == FSub(FSub(FOne, u), v)
    IN  [position |-> VAdd(VAdd(VMul(v0.position, u), VMul(v1.position, v)),
                           VMul(v2.position, w)),
         normal   |-> VAdd(VAdd(VMul(v0.normal, u), VMul(v1.normal, v)),
                           VMul(v2.normal, w)),
         texcoord |-> VAdd(VAdd(VMul(v0.texcoord, u), VMul(v1.texcoord, v)),
                           VMul(v2.texcoord, w))]

(***************************************************************************)
(* The inputs: work-item ids and frame indices.  Frame 0x93093884 with id  *)
(* (0, 0) and frame 0xCAF27222 with id (1, 0) are frames for which the     *)
(* RngNext call of InitCRND lands on Seed = (0, 0).                        *)
(***************************************************************************)
Instances == {"A", "B"}

Ids == {<<ToUInt(0), ToUInt(0)>>, <<ToUInt(1), ToUInt(0)>>,
        <<ToUInt(0), ToUInt(65536)>>, <<ToUInt(65535), ToUInt(65535)>>}

Frames == {ToUInt(0), ToUInt(1), Word(\H9309, \H3884), Word(\HCAF2, \H7222)}

\* the ids of a wider grid, components up to 2^16
Coords == {ToUInt(0), ToUInt(1), ToUInt(255), ToUInt(65535), ToUInt(65536)}

GridIds == Coords \X Coords

\* InitSeed and InitCRND on the inputs of the model; @@ <<>> leaves the
\* function as it is and has it tabulated once
InitSeedOf == [d \in GridIds, f \in Frames |-> InitSeed(d, f)] @@ <<>>

InitCRNDOf == [d \in GridIds, f \in Frames |-> InitCRND(d, f)] @@ <<>>

NoVertex == [position |-> <<>>, normal |-> <<>>, texcoord |-> <<>>]

InterpIdle ==
    /\ tri = <<NoVertex, NoVertex, NoVertex>>
    /\ bary = <<FZero, FZero, FZero>>
    /\ out3 = NoVertex
    /\ out2 = NoVertex

(***************************************************************************)
(* The generator: every instance is a thread-local CRNG built by InitCRND  *)
(* from the id of its work item and the frame index, and then advanced by  *)
(* RngNext and Rand through a reference to it.  A work item keeps its id   *)
(* and builds its CRNG anew for another frame.                             *)
(***************************************************************************)
Init ==
    /\ id \in [Instances -> Ids]
    /\ frameIndex \in [Instances -> Frames]
    /\ fresh = [i \in Instances |-> InitSeedOf[id[i], frameIndex[i]]]
    /\ rng = [i \in Instances |-> InitCRNDOf[id[i], frameIndex[i]]]
    /\ calls = [i \in Instances |-> <<>>]
    /\ rets = [i \in Instances |-> <<>>]
    /\ InterpIdle

CallInitCRND(i) ==
    \E f \in Frames :
        /\ frameIndex' = [frameIndex EXCEPT ![i] = f]
        /\ fresh' = [fresh EXCEPT ![i] = InitSeedOf[id[i], f]]
        /\ rng' = [rng EXCEPT ![i] = InitCRNDOf[id[i], f]]
        /\ calls' = [calls EXCEPT ![i] = <<>>]
        /\ rets' = [rets EXCEPT ![i] = <<>>]
        /\ UNCHANGED <<id, interpVars>>

\* RngNext on a CRNG that the instances share
DoRngNext_Shared(i) ==
    /\ LET n == RngNext(rng[i])
       IN  /\ rng' = [j \in Instances |-> n.rng]
           /\ rets' = [rets EXCEPT ![i] = Append(@, n.result)]
    /\ calls' = [calls EXCEPT ![i] = Append(@, "RngNext")]
    /\ UNCHANGED <<id, frameIndex, fresh, interpVars>>

DoRngNext(i) ==
    /\ LET n == RngNext(rng[i])
       IN  /\ rng' = [rng EXCEPT ![i] = n.rng]
           /\ rets' = [rets EXCEPT ![i] = Append(@, n.result)]
    /\ calls' = [calls EXCEPT ![i] = Append(@, "RngNext")]
    /\ UNCHANGED <<id, frameIndex, fresh, interpVars>>

DoRand(i) ==
    /\ LET n == Rand(rng[i])
       IN  /\ rng' = [rng EXCEPT ![i] = n.rng]
           /\ rets' = [rets EXCEPT ![i] = Append(@, n.result)]
    /\ calls' = [calls EXCEPT ![i] = Append(@, "Rand")]
    /\ UNCHANGED <<id, frameIndex, fresh, interpVars>>

CallRngNext(i) == Len(calls[i]) < MaxCalls /\ DoRngNext(i)

CallRand(i) == Len(calls[i]) < MaxCalls /\ DoRand(i)

Next ==
    \E i \in Instances :
        \/ CallInitCRND(i)
        \/ CallRngNext(i)
        \/ CallRand(i)

Spec == Init /\ [][Next]_vars

(***************************************************************************)
(* The work items of a grid building their CRNG: a dispatch hands every    *)
(* work item the same frame index, a later one another.                    *)
(***************************************************************************)
InitGrid ==
    /\ id \in [Instances -> GridIds]
    /\ \E f \in Frames : frameIndex = [i \in Instances |-> f]
    /\ fresh = [i \in Instances |-> InitSeedOf[id[i], frameIndex[i]]]
    /\ rng = [i \in Instances |-> InitCRNDOf[id[i], frameIndex[i]]]
    /\ calls = [i \in Instances |-> <<>>]
    /\ rets = [i \in Instances |-> <<>>]
    /\ InterpIdle

NextGrid == \E i \in Instances : CallInitCRND(i)

SpecGrid == InitGrid /\ [][NextGrid]_vars

(***************************************************************************)
(* One generator drawing a long run of words: instance A, built for the    *)
(* work item (0, 0), calls RngNext Window times.                           *)
(***************************************************************************)
WindowFrames == {ToUInt(0), Word(\H9309, \H3884)}

InitWindow ==
    /\ id = [i \in Instances |-> <<ToUInt(0), ToUInt(0)>>]
    /\ frameIndex \in [Instances -> WindowFrames]
    /\ frameIndex["B"] = ToUInt(0)
    /\ fresh = [i \in Instances |-> InitSeedOf[id[i], frameIndex[i]]]
    /\ rng = [i \in Instances |-> InitCRNDOf[id[i], frameIndex[i]]]
    /\ calls = [i \in Instances |-> <<>>]
    /\ rets = [i \in Instances |-> <<>>]
    /\ InterpIdle

WindowRngNext == Len(calls["A"]) < Window /\ DoRngNext("A")

NextWindow == WindowRngNext

SpecWindow == InitWindow /\ [][NextWindow]_vars

(***************************************************************************)
(* Interpolation at one intersection: the caller holds three vertices and  *)
(* barycentric coordinates and calls either overload once, the float2      *)
(* overload with the first two coordinates.  The coordinates are binary32  *)
(* values given by their bit patterns: 0, 1, 0.25, 0.1f, 0.7f and 1/3f.    *)
(***************************************************************************)
Vtx(p, n, t) ==
    [position |-> [k \in 1 .. 3 |-> Norm(p[k], -2)],
     normal   |-> [k \in 1 .. 3 |-> Norm(n[k], -2)],
     texcoord |-> [k \in 1 .. 2 |-> Norm(t[k], -2)]]

\* vertices with coordinates in quarters
VertexA == Vtx(<<0, 0, 0>>, <<0, 0, 4>>, <<0, 0>>)

VertexB == Vtx(<<4, 0, -4>>, <<0, 4, 0>>, <<4, 0>>)

VertexC == Vtx(<<2, 8, 6>>, <<-3, 2, 1>>, <<1, 4>>)

VertexD == Vtx(<<12, -8, 2>>, <<4, 0, 0>>, <<2, 2>>)

Triangles == {<<VertexA, VertexB, VertexC>>, <<VertexB, VertexC, VertexD>>,
              <<VertexD, VertexA, VertexC>>}

Weights == {AsFloat(ToUInt(0)), AsFloat(Word(\H3F80, \H0000)),
            AsFloat(Word(\H3E80, \H0000)), AsFloat(Word(\H3DCC, \HCCCD)),
            AsFloat(Word(\H3F33, \H3333)), AsFloat(Word(\H3EAA, \HAAAB))}

\* the third coordinate a caller passes: float3(u, v, 1 - u - v), or 0.25
ThirdWeights(u, v) == {FSub(FSub(FOne, u), v), AsFloat(Word(\H3E80, \H0000))}

InitInterp ==
    /\ id = [i \in Instances |-> <<ToUInt(0), ToUInt(0)>>]
    /\ frameIndex = [i \in Instances |-> ToUInt(0)]
    /\ fresh = [i \in Instances |-> InitSeedOf[id[i], frameIndex[i]]]
    /\ rng = [i \in Instances |-> InitCRNDOf[id[i], frameIndex[i]]]
    /\ calls = [i \in Instances |-> <<>>]
    /\ rets = [i \in Instances |-> <<>>]
    /\ tri \in Triangles
    /\ \E u \in Weights, v \in Weights :
           \E w \in ThirdWeights(u, v) : bary = <<u, v, w>>
    /\ out3 = NoVertex
    /\ out2 = NoVertex

CallInterpolateFloat3 ==
    /\ out3 = NoVertex
    /\ out3' = InterpolateFloat3(tri[1], tri[2], tri[3], bary)
    /\ UNCHANGED <<tri, bary, out2, rngVars>>

CallInterpolateFloat2 ==
    /\ out2 = NoVertex
    /\ out2' = InterpolateFloat2(tri[1], tri[2], tri[3], <<bary[1], bary[2]>>)
    /\ UNCHANGED <<tri, bary, out3, rngVars>>

NextInterp == CallInterpolateFloat3 \/ CallInterpolateFloat2

SpecInterp == InitInterp /\ [][NextInterp]_vars

(***************************************************************************)
(* Arithmetic the properties are stated with, kept apart from the          *)
(* operators above: a rotation as a renumbering of the bits, a product     *)
(* modulo 2^32 as a long multiplication of 11-bit limbs.                   *)
(***************************************************************************)
Rotl32(a, k) == {(i + k) % 32 : i \in a}

Limb(a, k) ==
    LET b(i) == IF (11 * k + i) \in a THEN Pow2(i) ELSE 0
    IN  b(0) + b(1) + b(2) + b(3) + b(4) + b(5) + b(6) + b(7) + b(8) + b(9)
        + b(10)

MulMod32(a, b) ==
    LET a0 == Limb(a, 0)  a1 == Limb(a, 1)  a2 == Limb(a, 2)
        b0 == Limb(b, 0)  b1 == Limb(b, 1)  b2 == Limb(b, 2)
        c0 == a0 * b0
        c1 == a0 * b1 + a1 * b0 + c0 \div 2048
        c2 == a0 * b2 + a1 * b1 + a2 * b0 + c1 \div 2048
        c == <<c0, c1, c2>>
    IN  {i \in 0 .. 31 : (c[(i \div 11) + 1] \div Pow2(i % 11)) % 2 = 1}

Last(q) == q[Len(q)]

Called(i, name) == calls'[i] = Append(calls[i], name)

ZeroSeed == [x |-> {}, y |-> {}]

(***************************************************************************)
(* C1                                                                      *)
(***************************************************************************)
\* the state RngNext must leave and the word it must return, from (x, y)
RngNextLaw(x, y, x2, y2, word) ==
    LET y1 == Xor(y, x)
        nx == Xor(Xor(Rotl32(x, 26), y1), Shl(y1, 9))
    IN  /\ word = MulMod32(x, Word(\H9E37, \H79BB))
        /\ x2 = nx
        /\ y2 = Rotl32(nx, 13)

\* C1: every RngNext call returns Seed.x * 0x9e3779bb mod 2^32 of the Seed.x
\* held before the call and leaves Seed.x' = rotl32(Seed.x, 26) xor y1 xor
\* (y1 << 9) with y1 = Seed.y xor Seed.x, and Seed.y' = rotl32(Seed.x', 13).
C1_RngNextStep ==
    [][\A i \in Instances :
          Called(i, "RngNext") =>
              RngNextLaw(rng[i].Seed.x, rng[i].Seed.y,
                         rng'[i].Seed.x, rng'[i].Seed.y, Last(rets'[i]))]_vars

C1_Witness ==
    \E i \in Instances :
        /\ Len(calls[i]) = 2
        /\ calls[i][2] = "RngNext"
        /\ rets[i][2] # {}
        /\ rng[i].Seed.x # rng[i].Seed.y

(***************************************************************************)
(* C2                                                                      *)
(***************************************************************************)
\* C2: every Rand call advances the state by one RngNext step; the pattern
\* 0x3f800000 | (r >> 9) of the word r of that step lies in
\* [0x3f800000, 0x3fffffff], the float returned is that pattern's float
\* minus 1.0, and it is neither negative nor 1.0 or more.
C2_RandRange ==
    [][\A i \in Instances :
          Called(i, "Rand") =>
              LET n == RngNext(rng[i])
                  pattern == Or(Word(\H3F80, 0), Shr(n.result, 9))
                  value == Last(rets'[i])
              IN  /\ rng'[i] = n.rng
                  /\ 31 \notin pattern
                  /\ ToInt(pattern) >= \H3F800000
                  /\ ToInt(pattern) <= \H3FFFFFFF
                  /\ value = Norm(ToInt(pattern) - \H3F800000, -23)
                  /\ ~FLess(value, FZero)
                  /\ FLess(value, FOne)]_vars

C2_Witness ==
    \E i \in Instances :
        /\ Len(calls[i]) = 2
        /\ calls[i][2] = "Rand"
        /\ FLess(FZero, rets[i][2])
        /\ FLess(rets[i][2], FOne)

(***************************************************************************)
(* C3                                                                      *)
(***************************************************************************)
\* ((id.x << 16) | id.y) mod 2^32, bit by bit
Packed(d) == {i \in 0 .. 31 : IF i < 16 THEN i \in d[2]
                                        ELSE i \in d[2] \/ (i - 16) \in d[1]}

\* C3: the state InitCRND returns is the one RngNext leaves when called once
\* on Seed = (Hash(packed id), Hash(frameIndex)), and equal inputs give
\* equal states.
C3_InitCRND ==
    \A i \in Instances :
        calls[i] = <<>> =>
            /\ rng[i] = RngNext([Seed |-> [x |-> Hash(Packed(id[i])),
                                          y |-> Hash(frameIndex[i])]]).rng
            /\ \A j \in Instances :
                   (/\ calls[j] = <<>>
                    /\ id[j] = id[i]
                    /\ frameIndex[j] = frameIndex[i]) => rng[j] = rng[i]

\* InitCRND((0, 0), 0) is Seed = (0xAB02A525, 0x54A4B560)
C3_Witness ==
    /\ calls["A"] = <<>>
    /\ id["A"] = <<{}, {}>>
    /\ frameIndex["A"] = {}
    /\ rng["A"].Seed = [x |-> Word(\HAB02, \HA525), y |-> Word(\H54A4, \HB560)]
    /\ rng["A"] # fresh["A"]

(***************************************************************************)
(* C4                                                                      *)
(***************************************************************************)
\* the fixed sequence of the hash, every step modulo 2^32
HashLaw(x) ==
    LET s1 == Xor(Xor(x, ToUInt(61)), Shr(x, 16))
        s2 == MulMod32(s1, ToUInt(9))
        s3 == Xor(s2, Shr(s2, 4))
        s4 == MulMod32(s3, Word(\H27D4, \HEB2D))
    IN  Xor(s4, Shr(s4, 15))

\* C4: what Hash returned for the packed id and for the frame index is the
\* fixed sequence applied to that argument alone, and the hash of 0 differs
\* from the hash of 1.
C4_Hash ==
    \A i \in Instances :
        /\ fresh[i].Seed.x = HashLaw(Packed(id[i]))
        /\ fresh[i].Seed.y = HashLaw(frameIndex[i])
        /\ \A j \in Instances :
               (frameIndex[i] = ToUInt(0) /\ frameIndex[j] = ToUInt(1))
                   => fresh[i].Seed.y # fresh[j].Seed.y

\* Hash(0) = 0xC0A9496A and Hash(1) = 0x27922C9D
C4_Witness ==
    /\ frameIndex["A"] = ToUInt(0)
    /\ frameIndex["B"] = ToUInt(1)
    /\ fresh["A"].Seed.y = Word(\HC0A9, \H496A)
    /\ fresh["B"].Seed.y = Word(\H2792, \H2C9D)

(***************************************************************************)
(* C6                                                                      *)
(***************************************************************************)
RECURSIVE RunAlone(_, _)
\* the calls cs made in order on a CRNG r that nothing else touches
RunAlone(r, cs) ==
    IF cs = <<>> THEN [rng |-> r, rets |-> <<>>]
    ELSE LET n == IF Head(cs) = "RngNext" THEN RngNext(r) ELSE Rand(r)
             rest == RunAlone(n.rng, Tail(cs))
         IN  [rng |-> rest.rng, rets |-> <<n.result>> \o rest.rets]

\* C6: under every interleaving, the state of an instance and the values
\* its calls returned are those of its own calls run alone from the state
\* InitCRND gave it, and a call on one instance changes nothing of another.
C6_Independent ==
    /\ [](\A i \in Instances :
             LET alone == RunAlone(InitCRNDOf[id[i], frameIndex[i]], calls[i])
             IN  rng[i] = alone.rng /\ rets[i] = alone.rets)
    /\ [][\A i \in Instances :
             (Called(i, "RngNext") \/ Called(i, "Rand")) =>
                 \A j \in Instances \ {i} :
                     /\ rng'[j] = rng[j]
                     /\ rets'[j] = rets[j]
                     /\ calls'[j] = calls[j]]_vars

C6_Witness ==
    /\ calls["A"] = <<"RngNext", "Rand">>
    /\ calls["B"] = <<"Rand", "RngNext">>
    /\ rng["A"] # rng["B"]
    /\ rng["A"].Seed # ZeroSeed
    /\ rng["B"].Seed # ZeroSeed

(***************************************************************************)
(* C7                                                                      *)
(***************************************************************************)
Fits16(d) == \A k \in {1, 2} : \A b \in d[k] : b < 16

\* C7: every instance holds a state whatever its id; the ids (0, 65536) and
\* (1, 0) give the same state for the same frame index; two different ids
\* with both components below 2^16 pack to different values.
C7_Packing ==
    \A i, j \in Instances :
        /\ rng[i].Seed.x \subseteq Bit /\ rng[i].Seed.y \subseteq Bit
        /\ (/\ id[i] = <<ToUInt(0), ToUInt(65536)>>
            /\ id[j] = <<ToUInt(1), ToUInt(0)>>
            /\ frameIndex[i] = frameIndex[j]
            /\ calls[i] = <<>> /\ calls[j] = <<>>)
               => (PackId(id[i]) = PackId(id[j]) /\ rng[i] = rng[j])
        /\ (Fits16(id[i]) /\ Fits16(id[j]) /\ id[i] # id[j])
               => PackId(id[i]) # PackId(id[j])

C7_Witness ==
    /\ id["A"] = <<ToUInt(0), ToUInt(65536)>>
    /\ id["B"] = <<ToUInt(1), ToUInt(0)>>
    /\ frameIndex["A"] = ToUInt(1)
    /\ frameIndex["B"] = ToUInt(1)
    /\ calls["A"] = <<>> /\ calls["B"] = <<>>
    /\ rng["A"] = rng["B"]
    /\ rng["A"].Seed # ZeroSeed

(***************************************************************************)
(* C9                                                                      *)
(***************************************************************************)
\* C9: in the state InitCRND returns and after any number of RngNext and
\* Rand calls, Seed.y is rotl32(Seed.x, 13).
C9_SeedYFromX ==
    \A i \in Instances : rng[i].Seed.y = Rotl32(rng[i].Seed.x, 13)

\* two different Seed pairs before the RngNext call of InitCRND, one state
\* after it, and calls made since
C9_Witness ==
    /\ fresh["A"].Seed.x # fresh["B"].Seed.x
    /\ fresh["A"].Seed.y # fresh["B"].Seed.y
    /\ calls["A"] = <<"RngNext", "Rand">>
    /\ calls["B"] = <<"RngNext", "Rand">>
    /\ rng["A"] = rng["B"]
    /\ rng["A"].Seed.x # {}

(***************************************************************************)
(* C10                                                                     *)
(***************************************************************************)
\* rotl32(Seed.x, 26) xor y1 xor (y1 << 9) is 0, y1 being Seed.y xor Seed.x
EntersZero(r) ==
    LET y1 == Xor(r.Seed.y, r.Seed.x)
    IN  Xor(Xor(Rotl32(r.Seed.x, 26), y1), Shl(y1, 9)) = {}

\* C10: a call on Seed = (0, 0) leaves Seed = (0, 0), RngNext returning 0 and
\* Rand the float of the pattern 0x3f800000 minus 1.0, which is 0.0; and
\* RngNext on a state of the stated form leaves Seed = (0, 0), in InitCRND
\* as in a later call.
C10_ZeroAbsorbing ==
    /\ [](\A i \in Instances :
             (EntersZero(fresh[i]) /\ calls[i] = <<>>) => rng[i].Seed = ZeroSeed)
    /\ [][\A i \in Instances :
             /\ (rng[i].Seed = ZeroSeed /\ Called(i, "RngNext")) =>
                    (rng'[i].Seed = ZeroSeed /\ Last(rets'[i]) = {})
             /\ (rng[i].Seed = ZeroSeed /\ Called(i, "Rand")) =>
                    /\ rng'[i].Seed = ZeroSeed
                    /\ Last(rets'[i]) = FSub(AsFloat(Word(\H3F80, 0)), FOne)
                    /\ Last(rets'[i]) = FZero
             /\ (EntersZero(rng[i]) /\ Called(i, "RngNext")) =>
                    rng'[i].Seed = ZeroSeed]_vars

C10_Witness ==
    \E i \in Instances :
        /\ fresh[i].Seed.x # {}
        /\ fresh[i].Seed.y # {}
        /\ EntersZero(fresh[i])
        /\ calls[i] = <<"RngNext", "Rand">>
        /\ rets[i] = <<{}, FZero>>
        /\ rng[i].Seed = ZeroSeed

(***************************************************************************)
(* C5                                                                      *)
(***************************************************************************)
\* C5: for the seed id = (0, 0), frameIndex = 0, the words returned by the
\* consecutive RngNext calls on the state InitCRND returned, up to the
\* first Window of them, are pairwise distinct.
C5_WindowDistinct ==
    (id["A"] = <<ToUInt(0), ToUInt(0)>> /\ frameIndex["A"] = ToUInt(0)) =>
        /\ Len(rets["A"]) = Len(calls["A"])
        /\ \A k \in 1 .. Len(calls["A"]) : calls["A"][k] = "RngNext"
        /\ Cardinality({rets["A"][k] : k \in 1 .. Len(rets["A"])})
               = Len(rets["A"])

C5_Witness ==
    /\ id["A"] = <<ToUInt(0), ToUInt(0)>>
    /\ frameIndex["A"] = ToUInt(0)
    /\ Len(rets["A"]) = Window
    /\ Cardinality({rets["A"][k] : k \in 1 .. Window}) = Window

(***************************************************************************)
(* C8                                                                      *)
(***************************************************************************)
\* u + v <= 1
SumAtMostOne(u, v) == ~FLess(FOne, FAdd(u, v))

\* v0.field * u + v1.field * v + v2.field * w, component k
Blend(field, k, u, v, w) ==
    FAdd(FAdd(FMul(tri[1][field][k], u), FMul(tri[2][field][k], v)),
         FMul(tri[3][field][k], w))

Blended(out, u, v, w) ==
    /\ \A k \in 1 .. 3 : out.position[k] = Blend("position", k, u, v, w)
    /\ \A k \in 1 .. 3 : out.normal[k] = Blend("normal", k, u, v, w)
    /\ \A k \in 1 .. 2 : out.texcoord[k] = Blend("texcoord", k, u, v, w)

\* C8: with u + v <= 1 and the third weight passed as 1 - u - v, the float3
\* overload returns the position, normal and texcoord the float2 overload
\* returns for (u, v); every field of either result is
\* v0.field * u + v1.field * v + v2.field * w; no call changes a vertex.
C8_OverloadsAgree ==
    /\ [](LET u == bary[1]
              v == bary[2]
              w == FSub(FSub(FOne, u), v)
          IN  /\ (out3 # NoVertex) => Blended(out3, u, v, bary[3])
              /\ (out2 # NoVertex) => Blended(out2, u, v, w)
              /\ (/\ SumAtMostOne(u, v)
                  /\ bary[3] = w
                  /\ out3 # NoVertex
                  /\ out2 # NoVertex) => out3 = out2)
    /\ [][tri' = tri /\ bary' = bary]_vars

\* u = v = 0.1f, where 1 - u - v is the binary32 0x3F4CCCCC
C8_Witness ==
    /\ bary[1] = AsFloat(Word(\H3DCC, \HCCCD))
    /\ bary[2] = AsFloat(Word(\H3DCC, \HCCCD))
    /\ bary[3] = AsFloat(Word(\H3F4C, \HCCCC))
    /\ SumAtMostOne(bary[1], bary[2])
    /\ tri = <<VertexB, VertexC, VertexD>>
    /\ out3 # NoVertex
    /\ out2 = out3
    /\ out2.position \notin {tri[1].position, tri[2].position, tri[3].position}

====
